---- MODULE Spec2Model ----
(***************************************************************************)
(* Onedb: the schema module (models.py) and the incremental seeding script *)
(* (Dbcarga.py) of a construction-materials store, as a state machine.     *)
(*                                                                         *)
(* One behaviour is one execution of one of the two scripts against the    *)
(* SQLite file loja_material_construcao.db.  The persisted file is `db`;   *)
(* each module-level SQLAlchemy session is a record holding its state, the *)
(* objects added but not yet flushed (`new`) and the rows flushed inside   *)
(* its still uncommitted transaction (`tx`).                               *)
(*                                                                         *)
(* A table is a sequence of rows; the identifier the storage assigns to a  *)
(* row (INTEGER PRIMARY KEY, max+1 on insert) is its position.  Columns    *)
(* filled by Faker and never read by the program (nome, cpf_cnpj, ...,     *)
(* data_venda) are left out of the rows; floats are integers (prices in    *)
(* currency units, the discount in hundredths).                            *)
(***************************************************************************)
EXTENDS Integers, Sequences, FiniteSets, TLC

VARIABLES entry,    \* the script executed: "models" or "Dbcarga"
          pc,       \* position of the interpreter in the module-level code
          i,        \* iteration counter of the current for loop
          schema,   \* TRUE when the six tables exist in the file
          db,       \* committed rows of the file, per table
          db0,      \* rows of the file when the execution started
          session,  \* the module-level sessions of models.py and Dbcarga.py
          phases    \* the phases executed so far, in order, without repeats

vars == <<entry, pc, i, schema, db, db0, session, phases>>

---------------------------------------------------------------------------
(* Bounds: the loop counts of the two scripts, scaled down.                *)

\* models.py:279 range(100): iterations of the reference-entity loop
N_REF == 1
\* models.py:286 range(500): sales generated by models.py
N_VENDAS == 1
\* Dbcarga.py:111 range(400): products added by Dbcarga.py
N_PRODUTOS_CARGA == 1
\* Dbcarga.py:115 range(80): customers added by Dbcarga.py
N_CLIENTES_CARGA == 1
\* Dbcarga.py:119 range(200): sales generated by Dbcarga.py
N_VENDAS_CARGA == 1

---------------------------------------------------------------------------
(* Program constants and the samples drawn from the random ranges.         *)

PrecoMin == 10
QtdMin == 1
QtdMax == 10
PrazoMax == 30
DescontoMax == 10

\* round(random.uniform(10, 500), 2): the low end of the range
Precos == {PrecoMin}
\* random.randint(1, 10): the two ends of the range
Quantidades == {QtdMin, QtdMax}
\* random.randint(0, 30): the two ends of the range
Prazos == {0, PrazoMax}
\* random.uniform(0, 0.1), in hundredths: the two ends of the range
Descontos == {0, DescontoMax}
\* fake.date_between(start_date="-30d", end_date="today")
Datas == {"today"}
\* Python's None
None == "None"

\* the keys of the dict formas_pagamento
formas_pagamento == {"Dinheiro", "Cartao de Credito", "Cartao de Debito", "Boleto"}
\* the list status_entrega
status_entrega == <<"Em processamento", "Enviado", "Entregue">>

Modules == {"models", "Dbcarga"}
RefTables == {"clientes", "produtos", "caixas", "formas_pagamento", "status_entrega"}
Tables == RefTables \cup {"vendas"}

EmptyTables == [t \in Tables |-> <<>>]

\* sessionmaker(bind=engine)(): a session with nothing pending
NewSession == [state |-> "open", new |-> EmptyTables, tx |-> EmptyTables]
NoSession == [state |-> "none", new |-> EmptyTables, tx |-> EmptyTables]

---------------------------------------------------------------------------
(* The generators.  Each is the set of rows one call can return.           *)

gerar_cliente == {[tabela |-> "clientes"]}

gerar_produto == {[preco_unitario |-> p] : p \in Precos}

gerar_caixa == {[tabela |-> "caixas"]}

\* gerar_forma_pagamento drawing the term whatever the description
gerar_forma_pagamento_prazo ==
  {[descricao |-> d,
    prazo_pagamento |-> p,
    desconto |-> IF d = "Dinheiro" THEN x ELSE 0]
     : d \in formas_pagamento, p \in Prazos, x \in Descontos}

gerar_forma_pagamento ==
  {[descricao |-> d,
    prazo_pagamento |-> IF d = "Boleto" THEN p ELSE 0,
    desconto |-> IF d = "Dinheiro" THEN x ELSE 0]
     : d \in formas_pagamento, p \in Prazos, x \in Descontos}

gerar_status_entrega(lista_status) ==
  {[descricao |-> lista_status[k]] : k \in 1..Len(lista_status)}

\* session.query(X).all() after the autoflush: committed rows, then the rows
\* of the session's transaction
Query(s) == [t \in Tables |-> db[t] \o s.tx[t]]

\* the identifiers random.choice can pick from the rows of a table
ChoiceIds(rows) == 1..Len(rows)

\* Venda(...): the object gerar_venda builds from the rows it chose (c, p, f,
\* e, k), the two random.randint draws (m for valor_venda, q for quantidade)
\* and the date d
Venda(vis, c, p, f, e, k, m, q, d) ==
  [id_cliente |-> c,
   id_produto |-> p,
   valor_venda |-> vis.produtos[p].preco_unitario * m,
   quantidade |-> q,
   id_forma_pagamento |-> f,
   id_status_entrega |-> e,
   data_entrega |-> IF vis.status_entrega[e].descricao = "Entregue" THEN d ELSE None,
   id_caixa |-> k]

\* the draws of one call of gerar_venda over the rows vis
Draws(vis) ==
  ChoiceIds(vis.clientes) \X ChoiceIds(vis.produtos)
    \X ChoiceIds(vis.formas_pagamento) \X ChoiceIds(vis.status_entrega)
    \X ChoiceIds(vis.caixas) \X Quantidades \X Quantidades \X Datas

\* gerar_venda taking "Enviado" for delivered as well
gerar_venda_enviado(vis) ==
  IF \E t \in RefTables : Len(vis[t]) = 0
  THEN {[raised |-> TRUE]}
  ELSE {[raised |-> FALSE,
         venda |-> [Venda(vis, x[1], x[2], x[3], x[4], x[5], x[6], x[7], x[8])
                      EXCEPT !.data_entrega =
                        IF vis.status_entrega[x[4]].descricao # "Em processamento"
                        THEN x[8] ELSE None]]
          : x \in Draws(vis)}

\* gerar_venda storing the list index of the cashier instead of its id
gerar_venda_indice(vis) ==
  IF \E t \in RefTables : Len(vis[t]) = 0
  THEN {[raised |-> TRUE]}
  ELSE {[raised |-> FALSE,
         venda |-> [Venda(vis, x[1], x[2], x[3], x[4], x[5], x[6], x[7], x[8])
                      EXCEPT !.id_caixa = x[5] - 1]]
          : x \in Draws(vis)}

\* gerar_venda guarding the choice (rows and random.choice(rows)): on an
\* empty table it goes on and returns a Venda without references
gerar_venda_guarded(vis) ==
  IF \E t \in RefTables : Len(vis[t]) = 0
  THEN {[raised |-> FALSE,
         venda |-> [id_cliente |-> 0, id_produto |-> 0, valor_venda |-> 0,
                    quantidade |-> q, id_forma_pagamento |-> 0,
                    id_status_entrega |-> 0, data_entrega |-> None,
                    id_caixa |-> 0]] : q \in Quantidades}
  ELSE {[raised |-> FALSE,
         venda |-> Venda(vis, x[1], x[2], x[3], x[4], x[5], x[6], x[7], x[8])]
          : x \in Draws(vis)}

\* gerar_venda over the rows the session sees: random.choice raises
\* IndexError on an empty table, otherwise a Venda is returned
gerar_venda(vis) ==
  IF \E t \in RefTables : Len(vis[t]) = 0
  THEN {[raised |-> TRUE]}
  ELSE {[raised |-> FALSE,
         venda |-> Venda(vis, x[1], x[2], x[3], x[4], x[5], x[6], x[7], x[8])]
          : x \in Draws(vis)}

---------------------------------------------------------------------------
(* Session operations.                                                     *)

\* session.add(obj): obj becomes pending
Add(s, t, row) == [s EXCEPT !.new[t] = Append(@, row)]

\* the flush: every pending object is inserted in the transaction
Flush(s) == [s EXCEPT !.tx = [t \in Tables |-> s.tx[t] \o s.new[t]],
                      !.new = EmptyTables]

\* the process ends with the uncaught exception: the objects in memory are
\* gone and SQLite rolls the open transaction back; close() was never called
Abandon(s) == [s EXCEPT !.new = EmptyTables, !.tx = EmptyTables]

\* a phase is recorded when execution enters it
Phase(p) == IF phases # <<>> /\ phases[Len(phases)] = p THEN phases
            ELSE Append(phases, p)

\* n copies of row x
Rep(x, n) == [k \in 1..n |-> x]

\* the file as a first execution of models.py leaves it when every draw
\* returns the same row: the run from the empty file reaches db = SeededStore
SeededStore ==
  [clientes |-> Rep([tabela |-> "clientes"], N_REF),
   produtos |-> Rep([preco_unitario |-> PrecoMin], N_REF),
   caixas |-> Rep([tabela |-> "caixas"], N_REF),
   formas_pagamento |-> Rep([descricao |-> "Boleto", prazo_pagamento |-> PrazoMax,
                             desconto |-> 0], N_REF),
   status_entrega |-> Rep([descricao |-> "Entregue"], N_REF),
   vendas |-> Rep([id_cliente |-> 1, id_produto |-> 1,
                   valor_venda |-> PrecoMin * QtdMin, quantidade |-> QtdMin,
                   id_forma_pagamento |-> 1, id_status_entrega |-> 1,
                   data_entrega |-> "today", id_caixa |-> 1], N_VENDAS)]

---------------------------------------------------------------------------
\* the script starts on a file that does not exist yet or on the file an
\* earlier run left
Init ==
  /\ entry \in Modules
  /\ pc = "m_create_all"
  /\ i = 0
  /\ \/ schema = FALSE /\ db = EmptyTables
     \/ schema = TRUE /\ db = SeededStore
  /\ db0 = db
  /\ session = [m \in Modules |-> NoSession]
  /\ phases = <<>>

\* drop_all before create_all: the tables are recreated empty
CreateAllDrop ==
  /\ pc = "m_create_all"
  /\ schema' = TRUE
  /\ db' = EmptyTables
  /\ phases' = Phase("schema")
  /\ pc' = "m_session"
  /\ UNCHANGED <<entry, i, db0, session>>

\* models.py:141 Base.metadata.create_all(engine)
CreateAll ==
  /\ pc = "m_create_all"
  /\ schema' = TRUE
  /\ phases' = Phase("schema")
  /\ pc' = "m_session"
  /\ UNCHANGED <<entry, i, db, db0, session>>

\* models.py:144-145 session = Session()
ModelsSession ==
  /\ pc = "m_session"
  /\ session' = [session EXCEPT !.models = NewSession]
  /\ pc' = "m_refs"
  /\ i' = 0
  /\ UNCHANGED <<entry, schema, db, db0, phases>>

\* models.py:279-284 one iteration of the reference-entity loop
ModelsRefs ==
  /\ pc = "m_refs"
  /\ i < N_REF
  /\ \E c \in gerar_cliente, p \in gerar_produto, k \in gerar_caixa,
        f \in gerar_forma_pagamento, e \in gerar_status_entrega(status_entrega) :
       session' = [session EXCEPT !.models =
                     Add(Add(Add(Add(Add(@, "clientes", c), "produtos", p),
                                 "caixas", k), "formas_pagamento", f),
                         "status_entrega", e)]
  /\ phases' = Phase("refs")
  /\ i' = IF i + 1 = N_REF THEN 0 ELSE i + 1
  /\ pc' = IF i + 1 = N_REF THEN "m_vendas" ELSE "m_refs"
  /\ UNCHANGED <<entry, schema, db, db0>>

\* session.add(gerar_venda()) of module m: the first query of gerar_venda
\* flushes the pending objects, then either random.choice raises and the
\* script dies, or the Venda returned is added to the session
AddVenda(m, here, n, next) ==
  /\ pc = here
  /\ i < n
  /\ LET s == Flush(session[m])
     IN \E o \in gerar_venda(Query(s)) :
          IF o.raised
          THEN /\ session' = [session EXCEPT ![m] = Abandon(s)]
               /\ pc' = "crashed"
               /\ UNCHANGED <<i, phases>>
          ELSE /\ session' = [session EXCEPT ![m] = Add(s, "vendas", o.venda)]
               /\ phases' = Phase("sales")
               /\ i' = IF i + 1 = n THEN 0 ELSE i + 1
               /\ pc' = IF i + 1 = n THEN next ELSE here
  /\ UNCHANGED <<entry, schema, db, db0>>

\* models.py:286-287
ModelsVendas == AddVenda("models", "m_vendas", N_VENDAS, "m_commit")

\* session.commit() of module m: flush, then the transaction is committed
Commit(m, here, next) ==
  /\ pc = here
  /\ LET s == Flush(session[m])
     IN /\ db' = Query(s)
        /\ session' = [session EXCEPT ![m] = [s EXCEPT !.tx = EmptyTables]]
  /\ phases' = Phase("commit")
  /\ pc' = next
  /\ UNCHANGED <<entry, i, schema, db0>>

\* models.py:290
ModelsCommit == Commit("models", "m_commit", "m_close")

\* session.close() of module m
Close(m, here, next) ==
  /\ pc = here
  /\ session' = [session EXCEPT ![m] = [state |-> "closed", new |-> EmptyTables,
                                         tx |-> EmptyTables]]
  /\ phases' = Phase("close")
  /\ pc' = next
  /\ UNCHANGED <<entry, i, schema, db, db0>>

\* models.py:293; when models was imported by Dbcarga.py:9, the importer
\* goes on with its own module-level code
ModelsClose ==
  Close("models", "m_close", IF entry = "models" THEN "done" ELSE "c_session")

\* Dbcarga.py:12-16 session = Session()
CargaSession ==
  /\ pc = "c_session"
  /\ session' = [session EXCEPT !.Dbcarga = NewSession]
  /\ pc' = "c_produtos"
  /\ i' = 0
  /\ UNCHANGED <<entry, schema, db, db0, phases>>

\* Dbcarga.py:111-112
CargaProdutos ==
  /\ pc = "c_produtos"
  /\ i < N_PRODUTOS_CARGA
  /\ \E p \in gerar_produto :
       session' = [session EXCEPT !.Dbcarga = Add(@, "produtos", p)]
  /\ phases' = Phase("refs")
  /\ i' = IF i + 1 = N_PRODUTOS_CARGA THEN 0 ELSE i + 1
  /\ pc' = IF i + 1 = N_PRODUTOS_CARGA THEN "c_clientes" ELSE "c_produtos"
  /\ UNCHANGED <<entry, schema, db, db0>>

\* Dbcarga.py:115-116
CargaClientes ==
  /\ pc = "c_clientes"
  /\ i < N_CLIENTES_CARGA
  /\ \E c \in gerar_cliente :
       session' = [session EXCEPT !.Dbcarga = Add(@, "clientes", c)]
  /\ phases' = Phase("refs")
  /\ i' = IF i + 1 = N_CLIENTES_CARGA THEN 0 ELSE i + 1
  /\ pc' = IF i + 1 = N_CLIENTES_CARGA THEN "c_vendas" ELSE "c_clientes"
  /\ UNCHANGED <<entry, schema, db, db0>>

\* Dbcarga.py:119-120
CargaVendas == AddVenda("Dbcarga", "c_vendas", N_VENDAS_CARGA, "c_commit")

\* Dbcarga.py:123
CargaCommit == Commit("Dbcarga", "c_commit", "c_close")

\* Dbcarga.py:126
CargaClose == Close("Dbcarga", "c_close", "done")

\* the same failure on a connection in autocommit mode: what was flushed
\* before the failure stays in the file
StorageErrorAutocommit ==
  /\ pc \in {"m_vendas", "m_commit", "c_vendas", "c_commit"}
  /\ LET m == IF pc \in {"m_vendas", "m_commit"} THEN "models" ELSE "Dbcarga"
     IN /\ db' = Query(Flush(session[m]))
        /\ session' = [session EXCEPT ![m] = Abandon(@)]
  /\ pc' = "crashed"
  /\ UNCHANGED <<entry, i, schema, db0, phases>>

\* the pending flush of a query or the commit fails in the storage
\* (sqlite3.OperationalError): the exception is not caught, the script dies
StorageError ==
  /\ pc \in {"m_vendas", "m_commit", "c_vendas", "c_commit"}
  /\ LET m == IF pc \in {"m_vendas", "m_commit"} THEN "models" ELSE "Dbcarga"
     IN session' = [session EXCEPT ![m] = Abandon(@)]
  /\ pc' = "crashed"
  /\ UNCHANGED <<entry, i, schema, db, db0, phases>>

Next ==
  \/ CreateAll
  \/ ModelsSession
  \/ ModelsRefs
  \/ ModelsVendas
  \/ ModelsCommit
  \/ ModelsClose
  \/ CargaSession
  \/ CargaProdutos
  \/ CargaClientes
  \/ CargaVendas
  \/ CargaCommit
  \/ CargaClose
  \/ StorageError

Spec == Init /\ [][Next]_vars

---------------------------------------------------------------------------
(* gerar_venda as a function of what the session holds: the sales loop of  *)
(* either script entered with any combination of empty and populated       *)
(* reference tables, and at most one object still pending.                 *)

GenStores ==
  {[t \in Tables |-> IF t \in full THEN SeededStore[t] ELSE <<>>]
     : full \in SUBSET RefTables}

GenPending ==
  {EmptyTables}
    \cup {[EmptyTables EXCEPT !.clientes = <<c>>] : c \in gerar_cliente}
    \cup {[EmptyTables EXCEPT !.produtos = <<p>>] : p \in gerar_produto}
    \cup {[EmptyTables EXCEPT !.caixas = <<k>>] : k \in gerar_caixa}
    \cup {[EmptyTables EXCEPT !.status_entrega = <<e>>]
            : e \in gerar_status_entrega(status_entrega)}

InitGen ==
  /\ entry \in Modules
  /\ pc = IF entry = "models" THEN "m_vendas" ELSE "c_vendas"
  /\ i = 0
  /\ schema = TRUE
  /\ db \in GenStores
  /\ db0 = db
  /\ \E n \in GenPending :
       session = [m \in Modules |->
                    IF m = entry THEN [NewSession EXCEPT !.new = n]
                    ELSE IF m = "models" THEN [NoSession EXCEPT !.state = "closed"]
                    ELSE NoSession]
  /\ phases = <<>>

NextGen ==
  \/ ModelsVendas
  \/ CargaVendas

SpecGen == InitGen /\ [][NextGen]_vars

---------------------------------------------------------------------------
(* Helpers of the properties.                                              *)

IsPrefix(s, t) == Len(s) <= Len(t) /\ \A k \in 1..Len(s) : s[k] = t[k]

Range(s) == {s[k] : k \in 1..Len(s)}

TotalRows(d) ==
  Len(d.clientes) + Len(d.produtos) + Len(d.caixas) + Len(d.formas_pagamento)
    + Len(d.status_entrega) + Len(d.vendas)

\* the rows of table t that session m sees inside its transaction
Rows(m, t) == db[t] \o session[m].tx[t]

\* the sales session m holds, flushed or pending
SessionVendas(m) == Range(session[m].tx.vendas) \cup Range(session[m].new.vendas)

\* the module whose code is running
Current == IF pc \in {"m_session", "m_refs", "m_vendas", "m_commit", "m_close",
                      "m_create_all"}
           THEN "models" ELSE "Dbcarga"

ForeignKey == [clientes |-> "id_cliente", produtos |-> "id_produto",
               formas_pagamento |-> "id_forma_pagamento",
               status_entrega |-> "id_status_entrega", caixas |-> "id_caixa"]

---------------------------------------------------------------------------
(* C1: every Sale has valor_venda = preco_unitario of its product times    *)
(* its own quantidade.                                                     *)
AmountIsPriceTimesQuantity ==
  /\ \A v \in Range(db.vendas) :
       v.id_produto \in DOMAIN db.produtos
         => v.valor_venda = db.produtos[v.id_produto].preco_unitario * v.quantidade
  /\ \A m \in Modules : \A v \in SessionVendas(m) :
       v.id_produto \in DOMAIN Rows(m, "produtos")
         => v.valor_venda
              = Rows(m, "produtos")[v.id_produto].preco_unitario * v.quantidade

(* C2: in the file and in every session, a Sale has data_entrega set if    *)
(* and only if the description of the status row it references is          *)
(* "Entregue".                                                             *)
DeliveredIff(v, st) ==
  /\ v.id_status_entrega \in DOMAIN st
  /\ (v.data_entrega # None) <=> (st[v.id_status_entrega].descricao = "Entregue")

DeliveryDateIffDelivered ==
  /\ \A v \in Range(db.vendas) : DeliveredIff(v, db.status_entrega)
  /\ \A m \in Modules : \A v \in SessionVendas(m) :
       DeliveredIff(v, Rows(m, "status_entrega"))

\* a finished run persisted a new Sale with a delivery date and one without
DeliveryDateWitness ==
  /\ pc = "done"
  /\ \E j, k \in (Len(db0.vendas) + 1)..Len(db.vendas) :
       /\ db.vendas[j].data_entrega = None
       /\ db.status_entrega[db.vendas[j].id_status_entrega].descricao = "Enviado"
       /\ db.vendas[k].data_entrega # None

(* C3: the five foreign keys of every Sale a session holds identify rows   *)
(* of the reference tables that exist in the session's transaction, from   *)
(* the moment the Sale is added; those of every persisted Sale identify    *)
(* persisted rows.                                                         *)
ReferentialIntegrity ==
  /\ \A v \in Range(db.vendas) : \A t \in RefTables :
       v[ForeignKey[t]] \in 1..Len(db[t])
  /\ \A m \in Modules : \A v \in SessionVendas(m) : \A t \in RefTables :
       v[ForeignKey[t]] \in 1..Len(Rows(m, t))

\* a Sale just added by Dbcarga.py references a product that session
\* inserted itself and a status row persisted before the run
ReferentialIntegrityWitness ==
  /\ pc = "c_commit"
  /\ \E v \in Range(session.Dbcarga.new.vendas) :
       /\ v.id_produto > Len(db.produtos)
       /\ v.id_status_entrega <= Len(db0.status_entrega)
       /\ Len(db0.status_entrega) > 0

(* C4: a call of gerar_venda while some reference table has no row, in     *)
(* the file or in the session, raises: the script dies, no Sale is in any  *)
(* session and the file is as it was.                                      *)
NoRows(t) ==
  Len(db[t]) + Len(session[Current].tx[t]) + Len(session[Current].new[t]) = 0

EmptyTableRaises ==
  [][(pc \in {"m_vendas", "c_vendas"} /\ \E t \in RefTables : NoRows(t))
       => /\ pc' = "crashed"
          /\ \A m \in Modules : SessionVendas(m)' = {}
          /\ db' = db]_vars

\* the generator died although only the product table was empty
EmptyTableWitness ==
  /\ pc = "crashed"
  /\ db.produtos = <<>>
  /\ \A t \in RefTables \ {"produtos"} : db[t] # <<>>

(* C5: the file changes only in the step of a successful commit, which     *)
(* persists every row of the session's batch; every other step, a failing  *)
(* one included, leaves the file as it was.                                *)
BatchRows(m, t) ==
  IF m = "models"
  THEN (IF t = "vendas" THEN N_VENDAS ELSE N_REF)
  ELSE CASE t = "produtos" -> N_PRODUTOS_CARGA
         [] t = "clientes" -> N_CLIENTES_CARGA
         [] t = "vendas" -> N_VENDAS_CARGA
         [] OTHER -> 0

BatchAtomic ==
  [][IF pc \in {"m_commit", "c_commit"} /\ pc' \in {"m_close", "c_close"}
     THEN \A t \in Tables :
            /\ db'[t] = db[t] \o session[Current].tx[t] \o session[Current].new[t]
            /\ Len(db'[t]) = Len(db[t]) + BatchRows(Current, t)
     ELSE db' = db]_vars

\* Dbcarga.py died after its sales were generated: the file holds the
\* batch models.py committed and none of the rows of Dbcarga's batch
BatchAtomicWitness ==
  /\ pc = "crashed"
  /\ entry = "Dbcarga"
  /\ session.models.state = "closed"
  /\ phases = <<"schema", "refs", "sales", "commit", "close", "refs", "sales">>
  /\ Len(db.produtos) = Len(db0.produtos) + N_REF

(* C6: when the run has ended, every session it opened is closed.          *)
SessionClosedOnExit ==
  pc \in {"done", "crashed"} => \A m \in Modules : session[m].state # "open"

(* C7: the phases of a run are, in this order and once each: schema        *)
(* creation, reference entities, sales, commit, close.                     *)
PhaseOrder ==
  IsPrefix(phases, <<"schema", "refs", "sales", "commit", "close">>)

(* C8: a finished execution of Dbcarga.py added exactly its own loop       *)
(* counts of products, customers and sales, and no cashier, payment        *)
(* method or delivery status.                                              *)
CargaDelta ==
  (pc = "done" /\ entry = "Dbcarga")
    => /\ Len(db.produtos) = Len(db0.produtos) + N_PRODUTOS_CARGA
       /\ Len(db.clientes) = Len(db0.clientes) + N_CLIENTES_CARGA
       /\ Len(db.vendas) = Len(db0.vendas) + N_VENDAS_CARGA
       /\ Len(db.caixas) = Len(db0.caixas)
       /\ Len(db.formas_pagamento) = Len(db0.formas_pagamento)
       /\ Len(db.status_entrega) = Len(db0.status_entrega)

(* C9: every payment method has one of the four descriptions, a nonzero    *)
(* prazo_pagamento only under "Boleto" and a nonzero desconto only under   *)
(* "Dinheiro".                                                             *)
FormaOk(f) ==
  /\ f.descricao \in formas_pagamento
  /\ f.prazo_pagamento # 0 => f.descricao = "Boleto"
  /\ f.desconto # 0 => f.descricao = "Dinheiro"

PaymentTermAndDiscount ==
  /\ \A f \in Range(db.formas_pagamento) : FormaOk(f)
  /\ \A m \in Modules :
       \A f \in Range(session[m].tx.formas_pagamento)
                  \cup Range(session[m].new.formas_pagamento) : FormaOk(f)

\* the reference loop produced a cash method with a discount
PaymentWitness ==
  \E f \in Range(session.models.new.formas_pagamento) :
    f.descricao = "Dinheiro" /\ f.desconto = DescontoMax /\ f.prazo_pagamento = 0

(* C10: no step removes or changes a persisted row, and a run that ends    *)
(* successfully leaves more rows than it found.                            *)
InsertOnly ==
  [][/\ \A t \in Tables : IsPrefix(db[t], db'[t])
     /\ (pc # "done" /\ pc' = "done") => TotalRows(db') > TotalRows(db0')]_vars

\* a re-run of models.py against the store an earlier run left has ended
InsertOnlyWitness ==
  /\ pc = "done"
  /\ entry = "models"
  /\ db0 = SeededStore
  /\ Len(db.vendas) = Len(db0.vendas) + N_VENDAS
====
